---- MODULE Spec2Model ----
(***************************************************************************)
(* Model of src/main.py: the patron-id cache (IDCache), its build loop     *)
(* with checkpoints and fault handler, the directory lookup, and the       *)
(* day/time report (DayTimeReporter).                                      *)
(*                                                                         *)
(* Python strings are sequences of one-character strings, so that split,   *)
(* strip, zfill and lexicographic comparison are computed as the code      *)
(* computes them.  A Python dict is a sequence of <<key, value>> pairs in  *)
(* insertion order.                                                        *)
(***************************************************************************)
EXTENDS Integers, Sequences, FiniteSets, TLC

VARIABLES
    file,        \* ./id_cache.json: whether it exists, the JSON object's members
    cache,       \* the IDCache dict: <<patron status, list of entries>> pairs
    constructed, \* an IDCache object exists
    input,       \* the rows of the report file
    pc,          \* position of IDCache.build
    i,           \* index of the next row the build loop will take
    cur,         \* index of the row whose id is being resolved (0: none)
    c,           \* build's counter c
    dump_every,  \* build's parameter
    patron_type, \* get_patron_type's local variable
    dir,         \* the directory's answers, one per ldapsearch filter asked
    queries,     \* filters asked by the current get_patron_type call
    lookups,     \* ids passed to get_patron_type by the current build
    examined,    \* indexes of the rows the current build loop has taken
    cache0,      \* the cache when the current build started
    resolved,    \* <<entry, status>> pairs known before or added by the build
    after,       \* "returned": a build on this input has returned normally;
                 \* "reloaded": and a new IDCache was constructed since;
                 \* else "no"
    rerun,       \* the current build was started in the "reloaded" situation
    nbuilds,     \* number of builds started
    fault,       \* where the current build's fault arose, "none" without one
    clean,       \* the cache file was absent or empty at the start
    rpc,         \* position of DayTimeReporter.run
    ri,          \* index of the next row run will take
    counted,     \* indexes of the rows run has counted
    data,        \* DayTimeReporter.data
    rday,        \* the i of run's renaming loop
    report_json, \* ./report.json: whether it exists, the dumped tree
    report_csv   \* ./report.csv: whether it exists, the rows written

vars == << file, cache, constructed, input, pc, i, cur, c, dump_every,
           patron_type, dir, queries, lookups, examined, cache0, resolved,
           after, rerun, nbuilds, fault, clean,
           rpc, ri, counted, data, rday, report_json,
           report_csv >>

buildVars == << pc, i, cur, c, dump_every, patron_type, dir, queries, lookups,
                examined, cache0, resolved, after, rerun, nbuilds, fault,
                clean >>

runVars == << rpc, ri, counted, data, rday, report_json, report_csv >>

----------------------------------------------------------------------------
(* Bounds *)

MaxRecords == 2      \* free rows of an input, after the optional week of rows
MaxInterval == 2     \* checkpoint intervals 1..MaxInterval, and the default
MaxBuilds == 2       \* builds in one behaviour

----------------------------------------------------------------------------
(* Python values *)

None == << "<None>" >>          \* Python's None; no string has this shape
Absent == [ exists |-> FALSE, members |-> << >> ]    \* a file that is not there
Written(members) == [ exists |-> TRUE, members |-> members ]

IndexOf(s, ch) ==               \* first index of ch in s, 0 when absent
    IF \E n \in 1..Len(s) : s[n] = ch
    THEN CHOOSE n \in 1..Len(s) : s[n] = ch /\ \A m \in 1..(n-1) : s[m] # ch
    ELSE 0

RECURSIVE Split(_, _)
Split(s, ch) ==                 \* str.split(ch)
    LET n == IndexOf(s, ch) IN
    IF n = 0 THEN << s >>
    ELSE << SubSeq(s, 1, n-1) >> \o Split(SubSeq(s, n+1, Len(s)), ch)

RECURSIVE Join(_, _)
Join(ch, parts) ==              \* ch.join(parts)
    IF Len(parts) = 0 THEN << >>
    ELSE IF Len(parts) = 1 THEN parts[1]
    ELSE parts[1] \o << ch >> \o Join(ch, Tail(parts))

RECURSIVE Strip(_)
Strip(s) ==                     \* str.strip()
    IF Len(s) = 0 THEN s
    ELSE IF s[1] = " " THEN Strip(Tail(s))
    ELSE IF s[Len(s)] = " " THEN Strip(SubSeq(s, 1, Len(s)-1))
    ELSE s

InList(x, l) == \E n \in 1..Len(l) : l[n] = x

(* dict operations, insertion order kept *)
Keys(d) == { d[n][1] : n \in 1..Len(d) }
Has(d, k) == \E n \in 1..Len(d) : d[n][1] = k
Pos(d, k) == CHOOSE n \in 1..Len(d) : d[n][1] = k
Get(d, k) == d[Pos(d, k)][2]
Put(d, k, v) ==
    IF Has(d, k) THEN [d EXCEPT ![Pos(d, k)] = << k, v >>]
    ELSE Append(d, << k, v >>)
GetDefault(d, k, dflt) == IF Has(d, k) THEN Get(d, k) ELSE dflt

----------------------------------------------------------------------------
(* The data the model draws its inputs from *)

TestBranch == << "T","e","s","t"," ","B","r","a","n","c","h" >>
Firestone == << "F","i","r","e","s","t","o","n","e" >>
unknown == << "u","n","k","n","o","w","n" >>
undergraduate == << "u","g" >>
graduate == << "g","r" >>
pustatus == << "p","u","s","t","a","t","u","s" >>
PrincetonEdu == << "@","p","r","i","n","c","e","t","o","n",".","e","d","u" >>
uid == << "u","i","d" >>
mail == << "m","a","i","l" >>

eAP == << "a","@","p" >>
eAQ == << "a","@","q" >>
eBP == << "b","@","p" >>

Stamp == << "t" >>              \* a non-empty timestamp

Feb2021(dd) == << "2","0","2","1","-","0","2","-","0", dd >>

Row(email, cancelled, checked, location, day, time) ==
    [ Email |-> email, Cancelled |-> cancelled, CheckedIn |-> checked,
      Location |-> location, FromDate |-> Feb2021(day), FromTime |-> time ]

T0915 == << "0","9",":","1","5" >>
T0930 == << "0","9",":","3","0" >>
T1300 == << "1","3",":","0","0" >>
T0005 == << "0","0",":","0","5" >>
T2330 == << "2","3",":","3","0" >>

Pool ==
    { Row(eAP, << >>, Stamp, Firestone, "1", T0915),
      Row(eAQ, << >>, << >>, Firestone, "1", T0930),
      Row(eBP, << >>, << >>, TestBranch, "2", T1300),
      Row(eBP, Stamp, << >>, TestBranch, "7", T0005),
      Row(eBP, << >>, Stamp, TestBranch, "1", T2330) }

Week ==                         \* one row on each day, Monday to Sunday
    << Row(eAP, << >>, Stamp, Firestone, "1", T0915),
       Row(eAP, << >>, Stamp, Firestone, "2", T0915),
       Row(eAP, << >>, Stamp, Firestone, "3", T0915),
       Row(eAP, << >>, Stamp, Firestone, "4", T0915),
       Row(eAP, << >>, Stamp, Firestone, "5", T0915),
       Row(eAP, << >>, Stamp, Firestone, "6", T0915),
       Row(eAP, << >>, Stamp, Firestone, "7", T0915) >>

HourText ==                     \* the start hours 0..23 as the file writes them
    << << "0","0" >>, << "0","1" >>, << "0","2" >>, << "0","3" >>,
       << "0","4" >>, << "0","5" >>, << "0","6" >>, << "0","7" >>,
       << "0","8" >>, << "0","9" >>, << "1","0" >>, << "1","1" >>,
       << "1","2" >>, << "1","3" >>, << "1","4" >>, << "1","5" >>,
       << "1","6" >>, << "1","7" >>, << "1","8" >>, << "1","9" >>,
       << "2","0" >>, << "2","1" >>, << "2","2" >>, << "2","3" >> >>

ClockTimes ==                   \* HH:MM and HH:MM:SS
    { HourText[h + 1] \o << ":" >> \o m :
        h \in 0..23,
        m \in { << "0","0" >>, << "5","9" >>, << "3","0",":","0","0" >> } }

TimeInputs ==                   \* a week of rows, the first at any clock time
    { [ Week EXCEPT ![1].FromTime = t ] : t \in ClockTimes }

FreeRows == UNION { [1..n -> Pool] : n \in 0..MaxRecords }

Inputs == FreeRows              \* the report files of the cache's builds

MainInputs ==                   \* free rows, alone, after or before a week
    FreeRows \cup { Week \o s : s \in FreeRows } \cup { s \o Week : s \in FreeRows }

InitFiles ==
    { Absent,
      Written(<< >>),
      Written(<< << undergraduate, << eAP >> >> >>),
      Written(<< << undergraduate, << eBP >> >>, << graduate, << eBP >> >> >>) }

(* what ldapsearch prints for one query, as the lines of its stdout *)
Line(k, v) == k \o << ":", " " >> \o v
Stdouts ==
    { << << >> >>,
      << Line(<< "d","n" >>, << "o","=","P" >>), Line(pustatus, undergraduate) >>,
      << Line(pustatus, graduate) >> }

DefaultDumpEvery == 200
Intervals == (1..MaxInterval) \cup { DefaultDumpEvery }

----------------------------------------------------------------------------
(* SeatDataReader *)

report_filter_without_checkin(r) ==       \* the filter less its middle clause
    r.Cancelled # << >> \/ r.Location # TestBranch

report_filter(r) ==
    r.Cancelled # << >> \/ r.CheckedIn # << >> \/ r.Location # TestBranch

----------------------------------------------------------------------------
(* json.dump / json.load of the cache file *)

JsonKey(k) == IF k = None THEN << "n","u","l","l" >> ELSE k

JsonDump(d) == [ n \in 1..Len(d) |-> << JsonKey(d[n][1]), d[n][2] >> ]

RECURSIVE JsonLoad(_)
JsonLoad(members) ==            \* a repeated key keeps its last value
    IF Len(members) = 0 THEN << >>
    ELSE LET m == members[Len(members)] IN
         Put(JsonLoad(SubSeq(members, 1, Len(members)-1)), m[1], m[2])

----------------------------------------------------------------------------
(* IDCache *)

includes_first(d, id) ==        \* looks into the first bucket only
    Len(d) > 0 /\ InList(id, d[1][2])

includes(d, id) == \E n \in 1..Len(d) : InList(id, d[n][2])

cache_patron_type_last(d, id) ==          \* keeps looking after a match
    IF includes(d, id)
    THEN d[CHOOSE n \in 1..Len(d) :
               /\ InList(id, d[n][2])
               /\ \A m \in (n+1)..Len(d) : ~ InList(id, d[m][2])][1]
    ELSE None

cache_patron_type(d, id) ==
    IF includes(d, id)
    THEN d[CHOOSE n \in 1..Len(d) :
               /\ InList(id, d[n][2])
               /\ \A m \in 1..(n-1) : ~ InList(id, d[m][2])][1]
    ELSE None

_dump_unflushed(d) ==           \* the last member never reaches the file
    JsonDump(SubSeq(d, 1, Len(d) - 1))

_dump(d) == JsonDump(d)

RECURSIVE LoadItems(_, _)
LoadItems(d, items) ==          \* for k,v in items: self[k] = v
    IF Len(items) = 0 THEN d
    ELSE LoadItems(Put(d, items[1][1], items[1][2]), Tail(items))

_load_skip(d, f) ==             \* the first member is not assigned
    LoadItems(d, SubSeq(JsonLoad(f), 2, Len(JsonLoad(f))))

_load(d, f) == LoadItems(d, JsonLoad(f))

_build_query(id, field) ==
    LET filter == field \o << "=" >> \o id IN
    IF field = mail THEN filter \o PrincetonEdu ELSE filter

RECURSIVE ParseLines(_, _)
ParseLines(d, lines) ==
    IF Len(lines) = 0 THEN d
    ELSE LET line == lines[1]
             tokens == Split(line, ":")
             k == tokens[1]
             v == IF Len(tokens) = 2 THEN Strip(tokens[2])
                  ELSE Strip(Join(":", Tail(tokens)))
         IN  IF IndexOf(line, ":") # 0
             THEN ParseLines(Put(d, k, v), Tail(lines))
             ELSE ParseLines(d, Tail(lines))

_run_query(stdout) == GetDefault(ParseLines(<< >>, stdout), pustatus, None)

EmailId(email) == Split(email, "@")[1]

NeedsMail(pt) == pt = None                       \* "might be an email alias"
Fallback_none(pt) == pt         \* no fallback

Fallback(pt) == IF pt = None THEN unknown ELSE pt

Probe(r) == r.Email             \* what build asks includes() about
Entry_bare(r) == Split(r.Email, "@")[1]   \* appends the bare id
Entry(r) == r.Email             \* what build appends to the bucket

AppendTo_replace(d, k, x) == Put(d, k, << x >>)      \* self[k] = [x]

AppendTo(d, k, x) == Put(d, k, GetDefault(d, k, << >>) \o << x >>)

CheckpointDue_early(count, every) == count % every = 1

CheckpointDue(count, every) == count % every = 0

RECURSIVE NextIncluded(_, _)
NextIncluded(report, n) ==      \* filter(report_filter, report), from row n on
    IF n > Len(report) THEN 0
    ELSE IF report_filter(report[n]) THEN n
    ELSE NextIncluded(report, n + 1)

Pairs(d) ==                     \* the <<entry, status>> pairs of a cache
    UNION { { << d[n][2][m], d[n][1] >> : m \in 1..Len(d[n][2]) } :
            n \in 1..Len(d) }

----------------------------------------------------------------------------
(* Initial state: a cache file as some earlier run left it, a report file, *)
(* no IDCache object yet                                                   *)

Init ==
    /\ file \in InitFiles
    /\ input \in Inputs
    /\ cache = << >>
    /\ constructed = FALSE
    /\ pc = "idle"
    /\ i = 1 /\ cur = 0 /\ c = 0
    /\ dump_every = DefaultDumpEvery
    /\ patron_type = None
    /\ dir = << >> /\ queries = << >> /\ lookups = << >>
    /\ examined = {} /\ cache0 = << >> /\ resolved = {}
    /\ after = "no" /\ rerun = FALSE /\ nbuilds = 0
    /\ fault = "none"
    /\ clean = (file.members = << >>)
    /\ rpc = "none" /\ ri = 1 /\ counted = {}
    /\ data = << >> /\ rday = 0
    /\ report_json = Absent /\ report_csv = Absent

BuildIdle == pc \in { "idle", "returned", "raised" }

(* nothing is left of a build that is over *)
NoBuild ==
    /\ pc' = "idle"
    /\ i' = 1 /\ cur' = 0 /\ c' = 0
    /\ dump_every' = DefaultDumpEvery
    /\ patron_type' = None
    /\ dir' = << >> /\ queries' = << >> /\ lookups' = << >>
    /\ examined' = {} /\ cache0' = << >> /\ resolved' = {}
    /\ fault' = "none" /\ clean' = clean /\ rerun' = FALSE

(* id_cache = IDCache() *)
Construct ==
    /\ BuildIdle /\ rpc = "none"
    /\ cache' = IF file.exists THEN _load(<< >>, file.members) ELSE << >>
    /\ constructed' = TRUE
    /\ NoBuild
    /\ after' = IF after \in { "returned", "reloaded" } THEN "reloaded" ELSE "no"
    /\ UNCHANGED << file, input, nbuilds >>
    /\ UNCHANGED runVars

(* after a build, another report file is put in place of the current one *)
ChangeInput ==
    /\ pc \in { "returned", "raised" } /\ rpc = "none" /\ nbuilds < MaxBuilds
    /\ input' \in Inputs \ { input }
    /\ NoBuild
    /\ after' = "no"
    /\ UNCHANGED << file, cache, constructed, nbuilds >>
    /\ UNCHANGED runVars

(* id_cache.build(pth, dump_every): the report is read, the loop starts *)
BuildStart ==
    /\ BuildIdle /\ constructed /\ rpc = "none" /\ nbuilds < MaxBuilds
    /\ dump_every' \in Intervals
    /\ pc' = "loop"
    /\ i' = 1 /\ cur' = 0 /\ c' = 0
    /\ patron_type' = None
    /\ dir' = << >> /\ queries' = << >> /\ lookups' = << >>
    /\ examined' = {}
    /\ cache0' = cache
    /\ resolved' = Pairs(cache)
    /\ rerun' = (after = "reloaded")
    /\ after' = "no"
    /\ nbuilds' = nbuilds + 1
    /\ fault' = "none" /\ clean' = clean
    /\ UNCHANGED << file, cache, constructed, input >>
    /\ UNCHANGED runVars

(* build when read_report raises: the handler dumps, the fault is re-raised *)
BuildUnreadable ==
    /\ BuildIdle /\ constructed /\ rpc = "none" /\ nbuilds < MaxBuilds
    /\ dump_every' \in Intervals
    /\ file' = Written(_dump(cache))
    /\ pc' = "raised"
    /\ i' = 1 /\ cur' = 0 /\ c' = 0
    /\ patron_type' = None
    /\ dir' = << >> /\ queries' = << >> /\ lookups' = << >>
    /\ examined' = {}
    /\ cache0' = cache
    /\ resolved' = Pairs(cache)
    /\ after' = "no" /\ rerun' = FALSE
    /\ nbuilds' = nbuilds + 1
    /\ fault' = "read" /\ clean' = clean
    /\ UNCHANGED << cache, constructed, input >>
    /\ UNCHANGED runVars

(* the loop takes the next included row, whose entry is already cached *)
BuildSkip ==
    /\ pc = "loop"
    /\ LET j == NextIncluded(input, i) IN
       /\ j # 0
       /\ includes(cache, Probe(input[j]))
       /\ i' = j + 1
       /\ examined' = examined \cup { j }
    /\ UNCHANGED << file, cache, constructed, input, pc, cur, c, dump_every,
                    patron_type, dir, queries, lookups, cache0, resolved,
                    after, nbuilds, fault, clean, rerun >>
    /\ UNCHANGED runVars

(* the loop takes the next included row, whose entry is not cached *)
BuildTake ==
    /\ pc = "loop"
    /\ LET j == NextIncluded(input, i) IN
       /\ j # 0
       /\ ~ includes(cache, Probe(input[j]))
       /\ i' = j + 1
       /\ cur' = j
       /\ examined' = examined \cup { j }
    /\ pc' = "uid"
    /\ queries' = << >>
    /\ UNCHANGED << file, cache, constructed, input, c, dump_every,
                    patron_type, dir, lookups, cache0, resolved, after,
                    nbuilds, fault, clean, rerun >>
    /\ UNCHANGED runVars

(* the directory answers a filter as it answered it before in this build *)
Answer(filter, out) ==
    IF Has(dir, filter) THEN out = Get(dir, filter) ELSE out \in Stdouts

(* get_patron_type: the 'uid' query *)
QueryUid ==
    /\ pc = "uid"
    /\ LET id == EmailId(input[cur].Email)
           q == _build_query(id, uid)
       IN  /\ lookups' = Append(lookups, id)
           /\ queries' = Append(queries, q)
           /\ \E out \in Stdouts :
                /\ Answer(q, out)
                /\ dir' = Put(dir, q, out)
                /\ patron_type' = _run_query(out)
                /\ pc' = IF NeedsMail(_run_query(out)) THEN "mail" ELSE "append"
    /\ UNCHANGED << file, cache, constructed, input, i, cur, c, dump_every,
                    examined, cache0, resolved, after, rerun, nbuilds,
                    fault, clean >>
    /\ UNCHANGED runVars

(* get_patron_type: the 'mail' query and the fallback *)
QueryMail ==
    /\ pc = "mail"
    /\ LET id == EmailId(input[cur].Email)
           q == _build_query(id, mail)
       IN  /\ queries' = Append(queries, q)
           /\ \E out \in Stdouts :
                /\ Answer(q, out)
                /\ dir' = Put(dir, q, out)
                /\ patron_type' = Fallback(_run_query(out))
    /\ pc' = "append"
    /\ UNCHANGED << file, cache, constructed, input, i, cur, c, dump_every,
                    lookups, examined, cache0, resolved, after, rerun,
                    nbuilds, fault, clean >>
    /\ UNCHANGED runVars

(* self[patron_type].append(...); c += 1; is a checkpoint due? *)
BuildAppend ==
    /\ pc = "append"
    /\ cache' = AppendTo(cache, patron_type, Entry(input[cur]))
    /\ resolved' = resolved \cup { << Entry(input[cur]), patron_type >> }
    /\ c' = c + 1
    /\ pc' = IF CheckpointDue(c + 1, dump_every) THEN "ckpt_dump" ELSE "loop"
    /\ UNCHANGED << file, constructed, input, i, cur, dump_every,
                    patron_type, dir, queries, lookups, examined, cache0,
                    after, nbuilds, fault, clean, rerun >>
    /\ UNCHANGED runVars

(* _dumpload, its three statements *)
CkptDump ==
    /\ pc = "ckpt_dump"
    /\ file' = Written(_dump(cache))
    /\ pc' = "ckpt_clear"
    /\ UNCHANGED << cache, constructed, input, i, cur, c, dump_every,
                    patron_type, dir, queries, lookups, examined, cache0,
                    resolved, after, nbuilds, fault, clean, rerun >>
    /\ UNCHANGED runVars

CkptClear ==
    /\ pc = "ckpt_clear"
    /\ cache' = << >>
    /\ pc' = "ckpt_load"
    /\ UNCHANGED << file, constructed, input, i, cur, c, dump_every,
                    patron_type, dir, queries, lookups, examined, cache0,
                    resolved, after, nbuilds, fault, clean, rerun >>
    /\ UNCHANGED runVars

CkptLoad ==
    /\ pc = "ckpt_load"
    /\ cache' = _load(cache, file.members)
    /\ pc' = "loop"
    /\ UNCHANGED << file, constructed, input, i, cur, c, dump_every,
                    patron_type, dir, queries, lookups, examined, cache0,
                    resolved, after, nbuilds, fault, clean, rerun >>
    /\ UNCHANGED runVars

(* the loop is over: the final self._dump() *)
BuildFinish ==
    /\ pc = "loop"
    /\ NextIncluded(input, i) = 0
    /\ file' = Written(_dump(cache))
    /\ pc' = "returned"
    /\ after' = "returned"
    /\ UNCHANGED << cache, constructed, input, i, cur, c, dump_every,
                    patron_type, dir, queries, lookups, examined, cache0,
                    resolved, nbuilds, fault, clean, rerun >>
    /\ UNCHANGED runVars

(* except: self._dump(); raise *)
Handler(where) ==
    /\ file' = Written(_dump(cache'))
    /\ pc' = "raised"
    /\ fault' = where
    /\ after' = "no"
    /\ UNCHANGED << constructed, input, i, cur, c, dump_every, patron_type,
                    dir, queries, lookups, examined, cache0, resolved,
                    nbuilds, clean, rerun >>
    /\ UNCHANGED runVars

(* a fault between two statements of the loop body *)
LoopFault ==
    /\ pc \in { "loop", "append" }
    /\ cache' = cache
    /\ Handler("loop")

(* the ldapsearch process cannot be run: Popen raises *)
LookupFault ==
    /\ pc \in { "uid", "mail" }
    /\ cache' = cache
    /\ Handler("lookup")

(* a fault inside _dumpload: in or around _dump, after clear(), or in _load *)
(* when only the first n keys have been assigned                           *)
CkptFault ==
    /\ pc \in { "ckpt_dump", "ckpt_clear", "ckpt_load" }
    /\ IF pc = "ckpt_load"
       THEN \E n \in 0..Len(JsonLoad(file.members)) :
                cache' = LoadItems(cache, SubSeq(JsonLoad(file.members), 1, n))
       ELSE cache' = cache
    /\ Handler("checkpoint")

----------------------------------------------------------------------------
(* int(), str(), zfill(), string comparison *)

Digits == << "0","1","2","3","4","5","6","7","8","9" >>
DigitVal(ch) == (CHOOSE n \in 1..10 : Digits[n] = ch) - 1

RECURSIVE ParseInt(_)
ParseInt(s) ==                  \* int(s) of a string of digits
    IF Len(s) = 0 THEN 0
    ELSE 10 * ParseInt(SubSeq(s, 1, Len(s)-1)) + DigitVal(s[Len(s)])

RECURSIVE IntToStr(_)
IntToStr(n) ==                  \* str(n), n >= 0
    IF n < 10 THEN << Digits[n+1] >>
    ELSE IntToStr(n \div 10) \o << Digits[(n % 10) + 1] >>

RECURSIVE zfill(_, _)
zfill(s, width) == IF Len(s) >= width THEN s ELSE zfill(<< "0" >> \o s, width)

AsciiOrder ==                   \* the characters in use, by code point
    << " ", "-", ".",
       "0","1","2","3","4","5","6","7","8","9", ":", "=", "@",
       "A","B","C","D","E","F","G","H","I","J","K","L","M",
       "N","O","P","Q","R","S","T","U","V","W","X","Y","Z",
       "a","b","c","d","e","f","g","h","i","j","k","l","m",
       "n","o","p","q","r","s","t","u","v","w","x","y","z" >>
Code(ch) == CHOOSE n \in 1..Len(AsciiOrder) : AsciiOrder[n] = ch

RECURSIVE StrLess(_, _)
StrLess(a, b) ==                \* a < b on Python strings
    IF Len(b) = 0 THEN FALSE
    ELSE IF Len(a) = 0 THEN TRUE
    ELSE IF a[1] = b[1] THEN StrLess(Tail(a), Tail(b))
    ELSE Code(a[1]) < Code(b[1])

(* an int used as a dict key, kept apart from the strings *)
IntKey(n) == << "<int>", n >>
IsInt(k) == Len(k) = 2 /\ k[1] = "<int>"

KeyLess(a, b) == IF IsInt(a) THEN a[2] < b[2] ELSE StrLess(a, b)

Remove(d, k) == SelectSeq(d, LAMBDA kv : kv[1] # k)

----------------------------------------------------------------------------
(* DayTimeReporter *)

days ==
    << << "M","o","n","d","a","y" >>,
       << "T","u","e","s","d","a","y" >>,
       << "W","e","d","n","e","s","d","a","y" >>,
       << "T","h","u","r","s","d","a","y" >>,
       << "F","r","i","d","a","y" >>,
       << "S","a","t","u","r","d","a","y" >>,
       << "S","u","n","d","a","y" >> >>

NumDays == 7

_time_key_unpadded(res) ==     \* without zfill
    LET h == ParseInt(Split(res.FromTime, ":")[1])
        hour == IF h % 2 = 1 THEN h - 1 ELSE h
    IN  IntToStr(hour) \o << ":","0","0"," ","-"," " >>
        \o IntToStr(hour + 1) \o << ":","5","9" >>

_time_key_from_reservation(res) ==
    LET h == ParseInt(Split(res.FromTime, ":")[1])
        hour == IF h % 2 = 1 THEN h - 1 ELSE h
    IN  zfill(IntToStr(hour), 2) \o << ":","0","0"," ","-"," " >>
        \o zfill(IntToStr(hour + 1), 2) \o << ":","5","9" >>

(* datetime.date(y, m, d).weekday(): 0 = Monday *)
IsLeap(y) == y % 4 = 0 /\ (y % 100 # 0 \/ y % 400 = 0)
DaysBeforeMonth(y, m) ==
    << 0, 31, 59, 90, 120, 151, 181, 212, 243, 273, 304, 334 >>[m]
    + (IF m > 2 /\ IsLeap(y) THEN 1 ELSE 0)
DaysBeforeYear(y) ==
    (y-1) * 365 + ((y-1) \div 4) - ((y-1) \div 100) + ((y-1) \div 400)
Weekday(y, m, d) == (DaysBeforeYear(y) + DaysBeforeMonth(y, m) + d + 6) % 7

_day_from_reservation(res) ==
    LET p == Split(res.FromDate, "-")
    IN  Weekday(ParseInt(p[1]), ParseInt(p[2]), ParseInt(p[3]))

_patron_type_from_reservation(id_cache, res) ==
    cache_patron_type(id_cache, res.Email)

Count_overwrite(d, res, id_cache) ==      \* sets 1 where it should add 1
    LET day == IntKey(_day_from_reservation(res))
        location == res.Location
        time_block == _time_key_from_reservation(res)
        ptype == _patron_type_from_reservation(id_cache, res)
        byDay == GetDefault(d, day, << >>)
        byLoc == GetDefault(byDay, location, << >>)
        byTime == GetDefault(byLoc, time_block, << >>)
    IN  Put(d, day, Put(byDay, location,
            Put(byLoc, time_block, Put(byTime, ptype, 1))))

(* the body of run's first loop for one row *)
Count(d, res, id_cache) ==
    LET day == IntKey(_day_from_reservation(res))
        location == res.Location
        time_block == _time_key_from_reservation(res)
        ptype == _patron_type_from_reservation(id_cache, res)
        byDay == GetDefault(d, day, << >>)
        byLoc == GetDefault(byDay, location, << >>)
        byTime == GetDefault(byLoc, time_block, << >>)
        n == IF Has(byTime, ptype) THEN Get(byTime, ptype) + 1 ELSE 1
    IN  Put(d, day, Put(byDay, location,
            Put(byLoc, time_block, Put(byTime, ptype, n))))

Sorted_asis(d) == d             \* the items as they come

RECURSIVE Sorted(_)
Sorted(d) ==                    \* sorted(d.items()), the keys being distinct
    IF Len(d) = 0 THEN << >>
    ELSE LET n == CHOOSE n \in 1..Len(d) :
                      \A m \in 1..Len(d) : m # n => KeyLess(d[n][1], d[m][1])
         IN  << d[n] >> \o Sorted(Remove(d, d[n][1]))

RECURSIVE _sort_report(_, _)
_sort_report(d, depth) ==       \* depth: levels of dicts left, 4 at the top
    LET s == Sorted(d) IN
    IF depth = 1 THEN s
    ELSE [ n \in 1..Len(s) |-> << s[n][1], _sort_report(s[n][2], depth - 1) >> ]

RECURSIVE SortRaises(_, _)
SortRaises(d, depth) ==         \* None < str raises TypeError
    \/ Len(d) >= 2 /\ Has(d, None)
    \/ depth > 1 /\ \E n \in 1..Len(d) : SortRaises(d[n][2], depth - 1)

ReportJsonKey(k) ==
    IF IsInt(k) THEN IntToStr(k[2])
    ELSE IF k = None THEN << "n","u","l","l" >> ELSE k

RECURSIVE ReportJson(_, _)
ReportJson(d, depth) ==         \* json.dump(self.data, ...)
    [ n \in 1..Len(d) |->
        << ReportJsonKey(d[n][1]),
           IF depth = 1 THEN d[n][2] ELSE ReportJson(d[n][2], depth - 1) >> ]

CsvCell(k) ==
    IF IsInt(k) THEN IntToStr(k[2]) ELSE IF k = None THEN << >> ELSE k

RECURSIVE Leaves(_, _, _)
Leaves(d, depth, path) ==       \* the nested for loops of _dump_csv
    IF Len(d) = 0 THEN << >>
    ELSE (IF depth = 1
          THEN << Append(path, CsvCell(d[1][1])) \o << IntToStr(d[1][2]) >> >>
          ELSE Leaves(d[1][2], depth - 1, Append(path, CsvCell(d[1][1]))))
         \o Leaves(Tail(d), depth, path)

CsvHeader ==
    << << "D","a","y" >>, << "L","o","c","a","t","i","o","n" >>,
       << "T","i","m","e"," ","B","l","o","c","k" >>,
       << "P","a","t","r","o","n"," ","T","y","p","e" >>,
       << "C","o","u","n","t" >> >>

_dump_csv(d) == << CsvHeader >> \o Leaves(d, 4, << >>)

MainInit ==
    /\ file \in InitFiles
    /\ input \in MainInputs
    /\ cache = << >>
    /\ constructed = FALSE
    /\ pc = "idle"
    /\ i = 1 /\ cur = 0 /\ c = 0
    /\ dump_every = DefaultDumpEvery
    /\ patron_type = None
    /\ dir = << >> /\ queries = << >> /\ lookups = << >>
    /\ examined = {} /\ cache0 = << >> /\ resolved = {}
    /\ after = "no" /\ rerun = FALSE /\ nbuilds = 0
    /\ fault = "none"
    /\ clean = (file.members = << >>)
    /\ rpc = "none" /\ ri = 1 /\ counted = {}
    /\ data = << >> /\ rday = 0
    /\ report_json = Absent /\ report_csv = Absent

(* reporter = DayTimeReporter(id_cache); reporter.run(pth): the report is read *)
RunStart ==
    /\ constructed /\ BuildIdle /\ rpc = "none"
    /\ rpc' = "count"
    /\ ri' = 1 /\ counted' = {} /\ data' = << >> /\ rday' = 0
    /\ UNCHANGED << report_json, report_csv >>
    /\ UNCHANGED << file, cache, constructed, input >>
    /\ UNCHANGED buildVars

(* run's first loop takes the next included row *)
RunCount ==
    /\ rpc = "count"
    /\ LET j == NextIncluded(input, ri) IN
       /\ j # 0
       /\ data' = Count(data, input[j], cache)
       /\ counted' = counted \cup { j }
       /\ ri' = j + 1
    /\ UNCHANGED << rpc, rday, report_json, report_csv >>
    /\ UNCHANGED << file, cache, constructed, input >>
    /\ UNCHANGED buildVars

(* the first loop is over: self.data = _sort_report(self.data) *)
RunSort ==
    /\ rpc = "count"
    /\ NextIncluded(input, ri) = 0
    /\ IF SortRaises(data, 4)
       THEN rpc' = "fault" /\ data' = data
       ELSE rpc' = "rename" /\ data' = _sort_report(data, 4)
    /\ rday' = 0
    /\ UNCHANGED << ri, counted, report_json, report_csv >>
    /\ UNCHANGED << file, cache, constructed, input >>
    /\ UNCHANGED buildVars

(* one turn of: for i in range(0,7): self.data[days[i]] = self.data.pop(i) *)
RunRename ==
    /\ rpc = "rename"
    /\ rday < NumDays
    /\ IF Has(data, IntKey(rday))
       THEN /\ data' = Put(Remove(data, IntKey(rday)), days[rday + 1],
                           Get(data, IntKey(rday)))
            /\ rday' = rday + 1
            /\ rpc' = "rename"
       ELSE /\ rpc' = "fault"            \* pop(i) raises KeyError
            /\ UNCHANGED << data, rday >>
    /\ UNCHANGED << ri, counted, report_json, report_csv >>
    /\ UNCHANGED << file, cache, constructed, input >>
    /\ UNCHANGED buildVars

(* self._dump('json'); self._dump('csv') *)
RunDump ==
    /\ rpc = "rename"
    /\ rday = NumDays
    /\ report_json' = Written(ReportJson(data, 4))
    /\ report_csv' = Written(_dump_csv(data))
    /\ rpc' = "done"
    /\ UNCHANGED << ri, counted, data, rday >>
    /\ UNCHANGED << file, cache, constructed, input >>
    /\ UNCHANGED buildVars

Next ==
    \/ Construct \/ ChangeInput \/ BuildStart \/ BuildUnreadable
    \/ BuildSkip \/ BuildTake \/ QueryUid \/ QueryMail \/ BuildAppend
    \/ CkptDump \/ CkptClear \/ CkptLoad \/ BuildFinish
    \/ LoopFault \/ LookupFault \/ CkptFault

(* the cache's life: constructions and builds, with their faults *)
Spec == Init /\ [][Next]_vars

(* __main__: one IDCache, at most one build, then the report *)
MainBuildStart == nbuilds = 0 /\ BuildStart

MainNext ==
    \/ Construct \/ MainBuildStart
    \/ BuildSkip \/ BuildTake \/ QueryUid \/ QueryMail \/ BuildAppend
    \/ CkptDump \/ CkptClear \/ CkptLoad \/ BuildFinish
    \/ RunStart \/ RunCount \/ RunSort \/ RunRename \/ RunDump

MainSpec == MainInit /\ [][MainNext]_vars

(* the report alone, of a week of rows whose first row starts at any time *)
TimeInit ==
    /\ file \in InitFiles
    /\ input \in TimeInputs
    /\ cache = << >>
    /\ constructed = FALSE
    /\ pc = "idle"
    /\ i = 1 /\ cur = 0 /\ c = 0
    /\ dump_every = DefaultDumpEvery
    /\ patron_type = None
    /\ dir = << >> /\ queries = << >> /\ lookups = << >>
    /\ examined = {} /\ cache0 = << >> /\ resolved = {}
    /\ after = "no" /\ rerun = FALSE /\ nbuilds = 0
    /\ fault = "none"
    /\ clean = (file.members = << >>)
    /\ rpc = "none" /\ ri = 1 /\ counted = {}
    /\ data = << >> /\ rday = 0
    /\ report_json = Absent /\ report_csv = Absent

TimeNext ==
    \/ Construct \/ RunStart \/ RunCount \/ RunSort \/ RunRename \/ RunDump

TimeSpec == TimeInit /\ [][TimeNext]_vars

----------------------------------------------------------------------------
(* Properties *)

InFile(p) == p \in Pairs(JsonLoad(file.members))

(* C1: when a fault inside build's loop ends the build, the cache file     *)
(* holds, under its status, every entry that was cached when the build     *)
(* started or was added by it before the fault.                            *)
C1_FaultKeepsResolved ==
    (pc = "raised" /\ fault \in { "loop", "lookup", "checkpoint" })
        => \A p \in resolved : InFile(p)

(* C2: a build on a new IDCache, after a build on the same input has       *)
(* returned normally, performs no directory lookup.                        *)
C2_Idempotent ==
    rerun => (lookups = << >> /\ pc \notin { "uid", "mail", "append" })

C2_Witness ==
    /\ rerun /\ pc = "returned"
    /\ Cardinality(examined) >= 2 /\ Len(cache) >= 2

(* a build of the current input from cache0 in which no checkpoint is due, *)
(* the directory answering as it answered the current build                *)
NoAnswer == << Line(pustatus, << "?" >>) >>
Told(q) == IF Has(dir, q) THEN Get(dir, q) ELSE NoAnswer

RECURSIVE BuildWithoutCheckpoint(_, _, _)
BuildWithoutCheckpoint(d, looked, n) ==
    LET j == NextIncluded(input, n) IN
    IF j = 0 THEN [ cache |-> d, lookups |-> looked ]
    ELSE IF includes(d, Probe(input[j]))
    THEN BuildWithoutCheckpoint(d, looked, j + 1)
    ELSE LET id == EmailId(input[j].Email)
             u == _run_query(Told(_build_query(id, uid)))
             pt == IF NeedsMail(u)
                   THEN Fallback(_run_query(Told(_build_query(id, mail))))
                   ELSE u
         IN  BuildWithoutCheckpoint(AppendTo(d, pt, Entry(input[j])),
                                    Append(looked, id), j + 1)

(* C3: whatever the checkpoint interval, a build that returns normally     *)
(* ends with the cache, in memory and in the file, and with the lookups of *)
(* the build of the same input from the same state in which no checkpoint  *)
(* is ever due; so interval 1 and an interval larger than the number of    *)
(* rows end alike.                                                         *)
C3_CheckpointEquivalence ==
    pc = "returned" =>
        LET r == BuildWithoutCheckpoint(cache0, << >>, 1) IN
        /\ cache = r.cache
        /\ file.exists /\ LoadItems(<< >>, JsonLoad(file.members)) = r.cache
        /\ lookups = r.lookups

C3_Witness ==
    /\ pc = "returned" /\ dump_every = 1 /\ c >= 2
    /\ cache0 # << >> /\ Len(cache) >= 2

(* C4: the checkpoint sequence reproduces the mapping: what _dump has just *)
(* written loads into a mapping equal to the one dumped, keys and lists,   *)
(* and once the checkpoint is over the cache is that mapping again.        *)
C4_RoundTrip ==
    /\ pc = "ckpt_clear" => _load(<< >>, file.members) = cache
    /\ (pc = "loop" /\ c > 0 /\ CheckpointDue(c, dump_every))
           => /\ Pairs(cache) = resolved
              /\ JsonDump(cache) = file.members
    /\ constructed => _load(<< >>, _dump(cache)) = cache

C4_Witness ==
    /\ pc = "loop" /\ c > 0 /\ CheckpointDue(c, dump_every)
    /\ Len(cache) >= 2 /\ \E n \in 1..Len(cache) : Len(cache[n][2]) >= 2

(* the weekdays on which an included row of the input falls *)
DaysOfInput ==
    { _day_from_reservation(input[n]) :
        n \in { m \in 1..Len(input) : report_filter(input[m]) } }

(* C5: after a build that returned normally, run on an input with at least *)
(* one included row completes without fault, and the day keys of the tree  *)
(* are the names of the weekdays on which an included row falls.           *)
C5_RunCompletes ==
    (pc = "returned" /\ rpc \in { "done", "fault" } /\ counted # {})
        => /\ rpc = "done"
           /\ Keys(data) = { days[d + 1] : d \in DaysOfInput }

(* C6: get_patron_type asks the 'uid' query first and the 'mail' query     *)
(* only when the 'uid' query gave no status; it returns the uid status,    *)
(* else the mail status, else 'unknown', never None; no bucket of the      *)
(* cache is keyed by None.                                                 *)
C6_PatronType ==
    /\ pc \in { "mail", "append" } =>
          LET id == EmailId(input[cur].Email)
              uq == _build_query(id, uid)
              mq == _build_query(id, mail)
              u == _run_query(Get(dir, uq))
          IN  /\ Len(queries) >= 1 /\ queries[1] = uq
              /\ pc = "mail" => (queries = << uq >> /\ u = None)
              /\ pc = "append" =>
                    /\ (u # None) => (queries = << uq >> /\ patron_type = u)
                    /\ (u = None) =>
                          /\ queries = << uq, mq >>
                          /\ LET m == _run_query(Get(dir, mq)) IN
                             patron_type = IF m # None THEN m ELSE unknown
                    /\ patron_type # None
    /\ ~ Has(cache, None)

C6_Witness ==
    /\ pc = "append" /\ Len(queries) = 2 /\ patron_type = graduate
    /\ mail = SubSeq(queries[2], 1, 4)

(* C7: a directory lookup that cannot be run does not abort the build.     *)
C7_LookupFailureNeverAborts == ~ (pc = "raised" /\ fault = "lookup")

(* C8: in one build get_patron_type is called at most once for an id (the  *)
(* part of the email before '@'), and never for the id of an entry that    *)
(* was cached when the build started.                                      *)
C8_OncePerIdentifier ==
    /\ \A n, m \in 1..Len(lookups) : lookups[n] = lookups[m] => n = m
    /\ \A n \in 1..Len(lookups) :
          lookups[n] \notin { EmailId(p[1]) : p \in Pairs(cache0) }

EntryCount(d, x) ==             \* how many times x is listed in d
    Cardinality(UNION { { << n, m >> : m \in { k \in 1..Len(d[n][2]) :
                                                  d[n][2][k] = x } } :
                        n \in 1..Len(d) })

Excluded(r) ==
    r.Cancelled = << >> /\ r.CheckedIn = << >> /\ r.Location = TestBranch

(* C10: build and run take the same rows: those that are not at once       *)
(* without cancellation, without check-in and at 'Test Branch'.            *)
C10_SameFilter ==
    LET In == { n \in 1..Len(input) : ~ Excluded(input[n]) } IN
    /\ pc = "returned" => examined = In
    /\ rpc \in { "rename", "done", "fault" } => counted = In

C10_Witness ==
    /\ pc = "returned" /\ rpc = "done"
    /\ \E n \in 1..Len(input) : Excluded(input[n])
    /\ \E n \in 1..Len(input) :
          input[n].Cancelled # << >> /\ input[n].Location = TestBranch

(* the time-block keys of a tree *)
TimeKeys(d) ==
    UNION { UNION { Keys(d[a][2][b][2]) : b \in 1..Len(d[a][2]) } :
            a \in 1..Len(d) }

HourOf(t) == CHOOSE h \in 0..23 : SubSeq(t, 1, 2) = HourText[h + 1]

BlockLabel(h) ==                \* 'EE:00 - FF:59', EE the even hour at or below h
    LET e == IF h % 2 = 0 THEN h ELSE h - 1 IN
    HourText[e + 1] \o << ":","0","0"," ","-"," " >>
    \o HourText[e + 2] \o << ":","5","9" >>

(* C11: for every start hour h in 0..23 the time block a row is counted    *)
(* under is 'EE:00 - FF:59', EE = h for even h and h - 1 for odd h,        *)
(* FF = EE + 1, both of two digits.                                        *)
C11_TimeBlock ==
    TimeKeys(data) = { BlockLabel(HourOf(input[n].FromTime)) : n \in counted }

C11_Witness ==
    /\ rpc = "done"
    /\ SubSeq(input[1].FromTime, 1, 2) = << "1","3" >>
    /\ << "1","2",":","0","0"," ","-"," ","1","3",":","5","9" >> \in TimeKeys(data)

(* the leaves of a tree: << day, location, time block, patron type, count >> *)
RECURSIVE LeafSet(_, _)
LeafSet(d, depth) ==
    IF depth = 1 THEN { << d[n][1], d[n][2] >> : n \in 1..Len(d) }
    ELSE UNION { { << d[n][1] >> \o l : l \in LeafSet(d[n][2], depth - 1) } :
                 n \in 1..Len(d) }

RECURSIVE SumCounts(_)
SumCounts(L) ==
    IF L = {} THEN 0
    ELSE LET l == CHOOSE l \in L : TRUE IN l[5] + SumCounts(L \ { l })

IncludedRows == { n \in 1..Len(input) : ~ Excluded(input[n]) }

(* the combination a row maps to *)
Combo(r) ==
    << days[_day_from_reservation(r) + 1], r.Location,
       _time_key_from_reservation(r), cache_patron_type(cache, r.Email) >>

(* C12: when run completes, each leaf is the number of included rows that  *)
(* map to its day, location, time block and patron type; a leaf is at      *)
(* least 1, an excluded row is in no leaf, the leaves sum to the number of *)
(* included rows.                                                          *)
C12_LeafCounts ==
    rpc = "done" =>
        LET L == LeafSet(data, 4) IN
        /\ \A l \in L :
              /\ l[5] >= 1
              /\ l[5] = Cardinality({ n \in IncludedRows :
                                        Combo(input[n]) = SubSeq(l, 1, 4) })
        /\ \A l, k \in L : SubSeq(l, 1, 4) = SubSeq(k, 1, 4) => l = k
        /\ \A n \in IncludedRows : \E l \in L : SubSeq(l, 1, 4) = Combo(input[n])
        /\ SumCounts(L) = Cardinality(IncludedRows)

C12_Witness ==
    /\ rpc = "done"
    /\ \E l \in LeafSet(data, 4) : l[5] >= 2
    /\ \E n \in 1..Len(input) : Excluded(input[n])

KeySeq(d) == [ n \in 1..Len(d) |-> d[n][1] ]

Ascending(d) == \A n \in 1..(Len(d) - 1) : StrLess(d[n][1], d[n + 1][1])

(* the positions << a, b, c, e >> of the leaves of a tree *)
LeafPositions(d) ==
    { p \in (1..Len(d)) \X (1..Len(input)) \X (1..Len(input))
            \X (1..Len(input)) :
        /\ p[2] <= Len(d[p[1]][2])
        /\ p[3] <= Len(d[p[1]][2][p[2]][2])
        /\ p[4] <= Len(d[p[1]][2][p[2]][2][p[3]][2]) }

RECURSIVE LexLess(_, _)
LexLess(p, q) ==
    IF Len(p) = 0 THEN FALSE
    ELSE IF p[1] = q[1] THEN LexLess(Tail(p), Tail(q))
    ELSE p[1] < q[1]

CsvRowAt(d, p) ==
    LET day == d[p[1]]
        loc == day[2][p[2]]
        tb == loc[2][p[3]]
        pt == tb[2][p[4]]
    IN  << CsvCell(day[1]), CsvCell(loc[1]), CsvCell(tb[1]), CsvCell(pt[1]),
           IntToStr(pt[2]) >>

(* C13: when run completes, the day keys of the tree, in memory and in     *)
(* report.json, are Monday to Sunday in this order, the location, time     *)
(* block and patron type keys under them ascend, and report.csv is the     *)
(* header followed by one row per leaf, in the order of the tree.          *)
C13_Order ==
    rpc = "done" =>
        /\ KeySeq(data) = days
        /\ report_json.exists /\ KeySeq(report_json.members) = days
        /\ \A a \in 1..Len(data) :
              /\ Ascending(data[a][2])
              /\ \A b \in 1..Len(data[a][2]) :
                    /\ Ascending(data[a][2][b][2])
                    /\ \A e \in 1..Len(data[a][2][b][2]) :
                          Ascending(data[a][2][b][2][e][2])
        /\ report_csv.exists
        /\ LET rows == report_csv.members
               P == LeafPositions(data)
               At(k) == CHOOSE p \in P : CsvRowAt(data, p) = rows[k]
           IN  /\ rows[1] = CsvHeader
               /\ Len(rows) = 1 + Cardinality(P)
               /\ \A k \in 2..Len(rows) : \E p \in P : CsvRowAt(data, p) = rows[k]
               /\ \A k, l \in 2..Len(rows) : k < l => LexLess(At(k), At(l))

C13_Witness ==
    /\ rpc = "done"
    /\ input[1].Location = TestBranch /\ ~ Excluded(input[1])
    /\ _day_from_reservation(input[1]) = 0
    /\ Len(data[1][2]) = 2
    /\ \E a \in 1..Len(data) : \E b \in 1..Len(data[a][2]) :
          \E e \in 1..Len(data[a][2][b][2]) : Len(data[a][2][b][2][e][2]) = 2

(* the mapping the cache file holds *)
Persisted == IF file.exists THEN _load(<< >>, file.members) ELSE << >>

(* C14: a build whose report cannot be read raises having processed        *)
(* nothing: no row taken, no lookup, and the cache, in memory and in the   *)
(* file, is the mapping the build started with, which before an object's   *)
(* first build is the mapping loaded at construction.                      *)
C14_UnreadableInput ==
    /\ (pc = "raised" /\ fault = "read") =>
          /\ lookups = << >> /\ queries = << >> /\ examined = {} /\ c = 0
          /\ cache = cache0
          /\ file.exists /\ Persisted = cache0
    /\ (pc = "idle" /\ constructed) => cache = Persisted

C14_Witness ==
    /\ pc = "raised" /\ fault = "read" /\ Len(cache0) >= 2
    /\ \E n \in IncludedRows : ~ includes(cache, input[n].Email)

(* C15: every entry build adds to a bucket is the bare id of the row, the  *)
(* value it passed to the lookup, and holds no '@'.                        *)
C15_EntriesAreBareIds ==
    \A p \in resolved \ Pairs(cache0) :
        /\ IndexOf(p[1], "@") = 0
        /\ \E n \in 1..Len(lookups) : lookups[n] = p[1]

(* C16: in a build, a checkpoint is taken exactly after the N-th, 2N-th,   *)
(* ... addition; whenever the loop is about to take a row fewer than N     *)
(* entries of the cache are missing from the file; when build returns the  *)
(* file holds the cache.                                                   *)
C16_PersistenceLag ==
    LET missing == Pairs(cache) \ Pairs(Persisted) IN
    /\ pc = "loop" =>
          /\ Cardinality(missing) = c % dump_every
          /\ Cardinality(missing) < dump_every
    /\ pc = "ckpt_dump" => (c > 0 /\ c % dump_every = 0)
    /\ (pc \in { "loop", "uid", "mail" } /\ c > 0 /\ c % dump_every = 0)
          => missing = {}
    /\ pc = "returned" => (file.exists /\ Persisted = cache)

C16_Witness ==
    /\ pc = "loop" /\ dump_every = 2 /\ c = 1
    /\ Cardinality(Pairs(cache) \ Pairs(Persisted)) = 1
    /\ cache0 # << >>

(* the buckets of the cache file that list x *)
BucketsOf(x) == { n \in 1..Len(file.members) : InList(x, file.members[n][2]) }

Listed == UNION { { l[m] : m \in 1..Len(l) } :
                  l \in { file.members[n][2] : n \in 1..Len(file.members) } }

First(S) == CHOOSE n \in S : \A m \in S : n <= m
Last(S) == CHOOSE n \in S : \A m \in S : m <= n

(* C17: when the cache file lists an entry under two buckets, after the    *)
(* load patron_type reports for it the status of the later bucket.         *)
C17_LaterBucketWins ==
    (constructed /\ pc = "idle") =>
        \A x \in Listed :
            Cardinality(BucketsOf(x)) >= 2 =>
                cache_patron_type(cache, x) = file.members[Last(BucketsOf(x))][1]

(* C17, amended: when the cache file lists an entry under two buckets,     *)
(* after the load both buckets list it and patron_type reports for it the  *)
(* status of the earlier bucket.                                           *)
C17_EarlierBucketWins ==
    (constructed /\ pc = "idle") =>
        \A x \in Listed :
            Cardinality(BucketsOf(x)) >= 2 =>
                /\ cache_patron_type(cache, x)
                       = file.members[First(BucketsOf(x))][1]
                /\ \A n \in BucketsOf(x) :
                      InList(x, Get(cache, file.members[n][1]))

C17_Witness ==
    /\ constructed /\ pc = "idle"
    /\ \E x \in Listed : Cardinality(BucketsOf(x)) >= 2

(* C18: run raises at an included row whose email is in no bucket of the   *)
(* cache: such a row is never counted and no report is written.            *)
C18_MissingLookupRaises ==
    /\ \A n \in counted : includes(cache, input[n].Email)
    /\ (report_json.exists \/ report_csv.exists) =>
          \A n \in IncludedRows : includes(cache, input[n].Email)

(* C19: after a build that returned normally every included row of the     *)
(* input has its email in a bucket of the cache, and a run that follows    *)
(* counts no row under None.                                               *)
C19_PipelineCoverage ==
    pc = "returned" =>
        /\ \A n \in IncludedRows :
              /\ includes(cache, input[n].Email)
              /\ cache_patron_type(cache, input[n].Email) # None
        /\ \A l \in LeafSet(data, 4) : l[4] # None

C19_Witness ==
    /\ pc = "returned" /\ rpc = "done"
    /\ c >= 1 /\ Len(cache) >= 2 /\ cache0 # << >>

(* C20: in a build without fault every <<entry, status>> pair of the cache *)
(* at the start is in the cache, and reported with the same status,        *)
(* whenever the loop takes a row and when build returns; what build adds   *)
(* and looks up comes from included rows it has taken.                     *)
C20_MonotonicConfined ==
    /\ pc \in { "loop", "uid", "mail", "append", "returned" } =>
          /\ Pairs(cache0) \subseteq Pairs(cache)
          /\ \A p \in Pairs(cache0) :
                cache_patron_type(cache, p[1]) = cache_patron_type(cache0, p[1])
          /\ \A p \in Pairs(cache) \ Pairs(cache0) :
                \E n \in examined \cap IncludedRows : input[n].Email = p[1]
    /\ examined \subseteq IncludedRows
    /\ cur # 0 => cur \in IncludedRows
    /\ \A k \in 1..Len(lookups) :
          \E n \in examined \cap IncludedRows :
              Split(input[n].Email, "@")[1] = lookups[k]

C20_Witness ==
    /\ pc = "returned" /\ dump_every = 1 /\ c >= 1 /\ Len(cache0) >= 2
    /\ \E n \in 1..Len(input) : Excluded(input[n])

====
